---- MODULE Spec2Model ----
(***************************************************************************)
(* Model of The People's Scorecard: the FEC client (fec_data_fetcher.py),  *)
(* the classification engine calculate_big_money_percentage and the Flask  *)
(* handlers (app.py).                                                      *)
(*                                                                         *)
(* Conventions.                                                            *)
(*  - A Python str is a sequence of one-character strings; str.upper(),    *)
(*    str.split() and the `in` substring test are computed on it.          *)
(*  - A value a dict may hold is a record [tag, s, n]: tag "absent" (key   *)
(*    not in the dict), "null" (None), "str" (s is the text) or "num" (n   *)
(*    is the number).                                                      *)
(*  - Money is an integer number of cents, so float sums are exact and     *)
(*    round(x, 2) keeps the value; a percentage is an integer number of    *)
(*    tenths of a percent, round(x, 1) being the round-half-even of the    *)
(*    exact quotient.                                                      *)
(***************************************************************************)
EXTENDS Integers, Sequences, FiniteSets, TLC

\* ------------------------------------------------------------------ bounds
\* longest receipts list handed to calculate_big_money_percentage
MaxLen == 2
\* most pages the upstream API reports (pagination.pages) for a committee
MaxUpstreamPages == 3
\* most records the upstream API puts on one page (the code asks for 100)
MaxPerPage == 1

\* ----------------------------------------------------------------- strings
LowerCase == <<"a","b","c","d","e","f","g","h","i","j","k","l","m",
               "n","o","p","q","r","s","t","u","v","w","x","y","z">>
UpperCase == <<"A","B","C","D","E","F","G","H","I","J","K","L","M",
               "N","O","P","Q","R","S","T","U","V","W","X","Y","Z">>

\* str.upper() on one character
UpperChar(c) ==
  IF \E i \in 1..Len(LowerCase) : LowerCase[i] = c
  THEN UpperCase[CHOOSE i \in 1..Len(LowerCase) : LowerCase[i] = c]
  ELSE c

\* str.upper()
Upper(s) == [i \in 1..Len(s) |-> UpperChar(s[i])]

\* `needle in hay` on strings
Contains(hay, needle) ==
  \E i \in 0..(Len(hay) - Len(needle)) :
     SubSeq(hay, i + 1, i + Len(needle)) = needle

\* the characters str.split() with no argument splits on
IsSpace(c) == c \in {" ", "\t"}

\* whether str.split() yields no token: the text is empty or all whitespace
SplitIsEmpty(s) == \A i \in 1..Len(s) : IsSpace(s[i])

\* str.split()[-1] of a text holding a token: its last run of non-whitespace
SplitLast(s) ==
  LET e == CHOOSE i \in 1..Len(s) :
             /\ ~IsSpace(s[i])
             /\ \A j \in (i + 1)..Len(s) : IsSpace(s[j])
      b == CHOOSE i \in 1..e :
             /\ \A j \in i..e : ~IsSpace(s[j])
             /\ (i = 1 \/ IsSpace(s[i - 1]))
  IN  SubSeq(s, b, e)

\* --------------------------------------------------------- dict values
Absent == [tag |-> "absent", s |-> << >>, n |-> 0]
Null   == [tag |-> "null",   s |-> << >>, n |-> 0]
Str(t) == [tag |-> "str",    s |-> t,     n |-> 0]
Num(k) == [tag |-> "num",    s |-> << >>, n |-> k]

\* dict.get(key, default): the default only when the key is not in the dict
Get(d, key, default) == IF d[key].tag = "absent" THEN default ELSE d[key]

\* -------------------------------------------------- the engine's constants
\* conduits = ['ACTBLUE', 'WINRED', 'ACT BLUE', 'WIN RED']
conduits ==
  << <<"A","C","T","B","L","U","E">>,
     <<"W","I","N","R","E","D">>,
     <<"A","C","T"," ","B","L","U","E">>,
     <<"W","I","N"," ","R","E","D">> >>

\* the keys of `breakdown`, in the order the dict literal gives them
BreakdownKeys ==
  << "pacs", "party_committees", "other_candidates", "organizations",
     "large_individual_donors", "small_individual_donors", "self_funding",
     "conduits", "unknown" >>

Categories == {BreakdownKeys[i] : i \in 1..Len(BreakdownKeys)}

\* breakdown = {'pacs': 0, ..., 'unknown': 0}
EmptyBreakdown == [k \in Categories |-> 0]

\* the IND threshold of `if amount >= 200`, in cents
LargeDonorCents == 20000

\* the entity-type codes the dispatch compares with
PAC == <<"P","A","C">>
PTY == <<"P","T","Y">>
CCM == <<"C","C","M">>
ORG == <<"O","R","G">>
IND == <<"I","N","D">>
CAN == <<"C","A","N">>

\* ------------------------------------------------------------------- state
VARIABLES
  \* calculate_big_money_percentage
  receipts,        \* the argument `receipts`: a sequence of record dicts
  candidate_name,  \* the argument `candidate_name`: a str
  idx,             \* position of the `for receipt in receipts` loop (1-based)
  breakdown,       \* the local dict `breakdown`
  calcPc,          \* "idle" | "loop" | "done" (returned) | "raised"
  calcExc,         \* the exception a raising call ends with, else "none"
  result,          \* the returned dict, once calcPc = "done"
  \* FECDataFetcher._make_request
  mrPc,            \* "idle" | "running" (in the for loop) | "returned" | "raised"
  mrEndpoint,      \* "schedule_a" | "committees" | "search"
  attempt,         \* the loop variable `attempt`
  mrExc,           \* the exception a raising call ends with, else "none"
  mrData,          \* response.json() of a call that returned, until the caller
                   \* has read it
  http,            \* what the client did so far, in order: each call of
                   \* _make_request, each time.sleep, each session.get and how
                   \* the upstream answered it; emptied when a call begins
  calls,           \* the calls of _make_request so far, in order: for each its
                   \* endpoint, its params['page'], how its last GET ended and
                   \* the results it returned
  \* FECDataFetcher.get_committee_receipts
  fetchPc,         \* "idle" | "loop" (head of while True) | "waiting" (in
                   \* _make_request) | "returned" | "raised"
  max_pages,       \* the argument `max_pages`: None or an int
  page,            \* the local `page`
  all_receipts,    \* the local `all_receipts`
  fetchExc,        \* the exception a raising call ends with, else "none"
  \* the Flask handlers of app.py
  appPc,           \* "idle" | "committees" | "receipts" | "analysis" |
                   \* "search" (the call the handler waits for) | "done"
  request,         \* the route and request.args of the request being handled
  principal_committee,  \* the local `principal_committee` of analyze_candidate
  response         \* what the handler gave back: a status and a body, or the
                   \* exception that left the handler

calcVars == <<receipts, candidate_name, idx, breakdown, calcPc, calcExc, result>>

mrVars == <<mrPc, mrEndpoint, attempt, mrExc, mrData, http, calls>>

fetchVars == <<fetchPc, max_pages, page, all_receipts, fetchExc>>

appVars == <<appPc, request, principal_committee, response>>

vars == <<calcVars, mrVars, fetchVars, appVars>>

NoResult == [kind |-> "none"]

\* ------------------------------------------- calculate_big_money_percentage
\* float(receipt.get('contribution_receipt_amount', 0)), in cents
Amount(receipt) == Get(receipt, "contribution_receipt_amount", Num(0)).n

\* receipt.get('entity_type', '').upper()
EntityType(receipt) == Upper(Get(receipt, "entity_type", Str(<< >>)).s)

\* receipt.get('contributor_name', '').upper()
ContributorName(receipt) == Upper(Get(receipt, "contributor_name", Str(<< >>)).s)

\* What lines 193-195 raise on this record: float(None) is a TypeError,
\* None.upper() an AttributeError; "none" when the three lines succeed.
FieldError(receipt) ==
  IF Get(receipt, "contribution_receipt_amount", Num(0)).tag = "null"
    THEN "TypeError"
  ELSE IF Get(receipt, "entity_type", Str(<< >>)).tag = "null"
    THEN "AttributeError"
  ELSE IF Get(receipt, "contributor_name", Str(<< >>)).tag = "null"
    THEN "AttributeError"
  ELSE "none"

\* mutant of IsExcluded: only a zero amount is skipped, a refund is counted
IsExcluded_OnlyZero(amount) == amount = 0

\* `if amount <= 0: continue`
IsExcluded(amount) == amount <= 0

\* any(conduit in contributor_name for conduit in conduits)
IsConduit(contributor_name) ==
  \E i \in 1..Len(conduits) : Contains(contributor_name, conduits[i])

\* `if candidate_name:` and the name has no token: split()[-1] is an IndexError
LastNameError(cand) == cand # << >> /\ SplitIsEmpty(cand)

\* mutant of IsSelfFunded: the CAN test taken out of `if candidate_name:`
IsSelfFunded_CanUnguarded(cand, contributor_name, entity_type) ==
  \/ cand # << >> /\ Contains(contributor_name, Upper(SplitLast(cand)))
  \/ entity_type = CAN

\* The self-funding test, for a candidate name whose split() is not empty:
\* `if candidate_name:` guards both the last-name test and the CAN test.
IsSelfFunded(cand, contributor_name, entity_type) ==
  /\ cand # << >>
  /\ \/ Contains(contributor_name, Upper(SplitLast(cand)))
     \/ entity_type = CAN

\* mutant of EntityBucket: `amount > 200` for `amount >= 200`
EntityBucket_StrictThreshold(entity_type, amount) ==
  IF entity_type = PAC THEN "pacs"
  ELSE IF entity_type = PTY THEN "party_committees"
  ELSE IF entity_type = CCM THEN "other_candidates"
  ELSE IF entity_type = ORG THEN "organizations"
  ELSE IF entity_type = IND
    THEN IF amount > LargeDonorCents THEN "large_individual_donors"
                                     ELSE "small_individual_donors"
  ELSE "unknown"

\* the if/elif chain on entity_type: the key of the accumulator it adds to
EntityBucket(entity_type, amount) ==
  IF entity_type = PAC THEN "pacs"
  ELSE IF entity_type = PTY THEN "party_committees"
  ELSE IF entity_type = CCM THEN "other_candidates"
  ELSE IF entity_type = ORG THEN "organizations"
  ELSE IF entity_type = IND
    THEN IF amount >= LargeDonorCents THEN "large_individual_donors"
                                      ELSE "small_individual_donors"
  ELSE "unknown"

\* mutant of Add: `=` for `+=`
Add_Assign(b, key, amount) == [b EXCEPT ![key] = amount]

\* breakdown[key] += amount
Add(b, key, amount) == [b EXCEPT ![key] = @ + amount]

\* sum(breakdown.values()): the values added in the dict's key order
RECURSIVE SumKeys(_, _)
SumKeys(b, n) == IF n = 0 THEN 0 ELSE SumKeys(b, n - 1) + b[BreakdownKeys[n]]

TotalRaised(b) == SumKeys(b, Len(BreakdownKeys))

\* mutant of BigMoney: self-funding counted as big money
BigMoney_WithSelfFunding(b) ==
  b["pacs"] + b["party_committees"] + b["other_candidates"]
  + b["organizations"] + b["large_individual_donors"] + b["self_funding"]

\* big_money = pacs + party_committees + other_candidates + organizations
\*             + large_individual_donors
BigMoney(b) ==
  b["pacs"] + b["party_committees"] + b["other_candidates"]
  + b["organizations"] + b["large_individual_donors"]

\* grassroots_total = small_individual_donors + conduits
GrassrootsTotal(b) == b["small_individual_donors"] + b["conduits"]

\* countable_total = total_raised - breakdown['self_funding']
CountableTotal(b) == TotalRaised(b) - b["self_funding"]

\* round(num / den * 100, 1) for num >= 0 and den > 0, in tenths of a percent:
\* the nearest tenth, a tie going to the even one
RoundPercent(num, den) ==
  LET q == (num * 1000) \div den
      r == (num * 1000) % den
  IN  IF 2 * r < den THEN q
      ELSE IF 2 * r > den THEN q + 1
      ELSE IF q % 2 = 0 THEN q ELSE q + 1

\* `if countable_total > 0: round(...) else: 0`
BigMoneyPercentage(b) ==
  IF CountableTotal(b) > 0 THEN RoundPercent(BigMoney(b), CountableTotal(b))
  ELSE 0

\* breakdown_percentages[key]
BreakdownPercentage(b, key) ==
  IF TotalRaised(b) > 0 THEN RoundPercent(b[key], TotalRaised(b)) ELSE 0

\* the dict of the return statement
MakeResult(b, rs) ==
  [ kind |-> "analysis",
    big_money_percentage |-> BigMoneyPercentage(b),
    total_raised |-> TotalRaised(b),
    big_money_amount |-> BigMoney(b),
    grassroots_amount |-> GrassrootsTotal(b),
    self_funding_amount |-> b["self_funding"],
    total_receipts |-> Len(rs),
    breakdown |->
      [k \in (Categories \ {"unknown"}) \cup {"grassroots_combined"} |->
         IF k = "grassroots_combined"
         THEN [ amount |-> GrassrootsTotal(b),
                percentage |->
                  IF TotalRaised(b) > 0
                  THEN RoundPercent(GrassrootsTotal(b), TotalRaised(b)) ELSE 0 ]
         ELSE [ amount |-> b[k], percentage |-> BreakdownPercentage(b, k) ]] ]

CalcIdle ==
  /\ receipts = << >>
  /\ candidate_name = << >>
  /\ idx = 1
  /\ breakdown = EmptyBreakdown
  /\ calcPc = "idle"
  /\ calcExc = "none"
  /\ result = NoResult

InLoop == calcPc = "loop" /\ idx <= Len(receipts)

\* One iteration that raises: lines 193-195 on a null field, or line 210 on a
\* candidate name that is not empty and holds no token.
CalcRaise ==
  /\ InLoop
  /\ LET receipt == receipts[idx] IN
       \/ /\ FieldError(receipt) # "none"
          /\ calcExc' = FieldError(receipt)
       \/ /\ FieldError(receipt) = "none"
          /\ ~IsExcluded(Amount(receipt))
          /\ ~IsConduit(ContributorName(receipt))
          /\ LastNameError(candidate_name)
          /\ calcExc' = "IndexError"
  /\ calcPc' = "raised"
  /\ UNCHANGED <<receipts, candidate_name, idx, breakdown, result, mrVars, fetchVars, appVars>>

\* One iteration ending at `if amount <= 0: continue`
CalcSkip ==
  /\ InLoop
  /\ FieldError(receipts[idx]) = "none"
  /\ IsExcluded(Amount(receipts[idx]))
  /\ idx' = idx + 1
  /\ UNCHANGED <<receipts, candidate_name, breakdown, calcPc, calcExc, result, mrVars, fetchVars, appVars>>

\* One iteration ending at the conduit branch
CalcConduit ==
  /\ InLoop
  /\ FieldError(receipts[idx]) = "none"
  /\ ~IsExcluded(Amount(receipts[idx]))
  /\ IsConduit(ContributorName(receipts[idx]))
  /\ breakdown' = Add(breakdown, "conduits", Amount(receipts[idx]))
  /\ idx' = idx + 1
  /\ UNCHANGED <<receipts, candidate_name, calcPc, calcExc, result, mrVars, fetchVars, appVars>>

\* One iteration ending at the self-funding branch
CalcSelfFunding ==
  /\ InLoop
  /\ FieldError(receipts[idx]) = "none"
  /\ ~IsExcluded(Amount(receipts[idx]))
  /\ ~IsConduit(ContributorName(receipts[idx]))
  /\ ~LastNameError(candidate_name)
  /\ IsSelfFunded(candidate_name, ContributorName(receipts[idx]),
                  EntityType(receipts[idx]))
  /\ breakdown' = Add(breakdown, "self_funding", Amount(receipts[idx]))
  /\ idx' = idx + 1
  /\ UNCHANGED <<receipts, candidate_name, calcPc, calcExc, result, mrVars, fetchVars, appVars>>

\* One iteration ending in the entity-type dispatch
CalcDispatch ==
  /\ InLoop
  /\ FieldError(receipts[idx]) = "none"
  /\ ~IsExcluded(Amount(receipts[idx]))
  /\ ~IsConduit(ContributorName(receipts[idx]))
  /\ ~LastNameError(candidate_name)
  /\ ~IsSelfFunded(candidate_name, ContributorName(receipts[idx]),
                   EntityType(receipts[idx]))
  /\ breakdown' = Add(breakdown,
                      EntityBucket(EntityType(receipts[idx]), Amount(receipts[idx])),
                      Amount(receipts[idx]))
  /\ idx' = idx + 1
  /\ UNCHANGED <<receipts, candidate_name, calcPc, calcExc, result, mrVars, fetchVars, appVars>>

\* The loop is over: the totals, the percentages and the return
CalcReturn ==
  /\ calcPc = "loop"
  /\ idx > Len(receipts)
  /\ result' = MakeResult(breakdown, receipts)
  /\ calcPc' = "done"
  /\ UNCHANGED <<receipts, candidate_name, idx, breakdown, calcExc, mrVars, fetchVars, appVars>>

CalcStep ==
  \/ CalcRaise
  \/ CalcSkip
  \/ CalcConduit
  \/ CalcSelfFunding
  \/ CalcDispatch
  \/ CalcReturn

\* ----------------------------------------------------- inputs of the engine
\* contributor names: neutral, a conduit in mixed case, each other conduit
\* spelling, the candidate's last name in mixed case, last name and conduit
NameDoe         == <<"j"," ","d","o","e">>
NameActBlue     == <<"A","c","t","B","l","u","e">>
NameWinRed      == <<"w","i","n","r","e","d">>
NameActBlueSp   == <<"A","C","T"," ","B","L","U","E">>
NameWinRedSp    == <<"W","i","n"," ","R","e","d">>
NameWarren      == <<"W","a","r","r","e","n",","," ","E">>
NameWarrenBlue  == <<"W","A","R","R","E","N"," ","a","c","t","b","l","u","e">>

NameValues ==
  { Absent, Null, Str(NameDoe), Str(NameActBlue), Str(NameWinRed),
    Str(NameActBlueSp), Str(NameWinRedSp), Str(NameWarren), Str(NameWarrenBlue) }

\* entity types: the codes, one in lower case, one unknown code
TypeValues ==
  { Absent, Null, Str(PAC), Str(PTY), Str(CCM), Str(ORG), Str(IND),
    Str(<<"i","n","d">>), Str(CAN), Str(<<"X">>) }

\* amounts in cents: a refund, zero, just under and at the IND threshold
AmountValues == { Absent, Null, Num(-2500), Num(0), Num(19999), Num(20000) }

Rec(a, e, n) ==
  [contribution_receipt_amount |-> a, entity_type |-> e, contributor_name |-> n]

\* The records the lists are drawn from: every entity type with the two
\* counted amounts; every contributor name with a candidate's type, and the
\* names that matter with an individual's; every amount with a plain record,
\* and the amounts that are not counted with a conduit's, a self-funder's and
\* a malformed record.
Records ==
  { Rec(a, e, Str(NameDoe)) : a \in {Num(19999), Num(20000)}, e \in TypeValues }
  \cup { Rec(Num(20000), Str(CAN), n) : n \in NameValues }
  \cup { Rec(Num(20000), Str(IND), n) :
           n \in {Absent, Null, Str(NameActBlue), Str(NameWarren)} }
  \cup { Rec(a, Str(IND), Str(NameDoe)) : a \in AmountValues }
  \cup { Rec(a, Str(CAN), Str(NameWarrenBlue)) :
           a \in {Absent, Null, Num(-2500)} }
  \cup { Rec(a, Str(PAC), Str(NameWarren)) : a \in {Absent, Num(0)} }
  \cup { Rec(Num(-2500), Null, Absent) }

\* candidate names: none, whitespace only, two tokens in mixed case, one token
\* with trailing whitespace
CandidateNames ==
  { << >>, <<" ">>,
    <<"E","l","i"," ","W","a","r","r","e","n">>,
    <<"w","a","r","r","e","n"," ">> }

ReceiptLists == UNION { [1..k -> Records] : k \in 0..MaxLen }

\* ------------------------------------------- FECDataFetcher._make_request
\* max_retries: int = 3
max_retries == 3
\* self.rate_limit_delay = 0.1, in milliseconds
RateLimitDelayMs == 100
\* time.sleep(2) before a retry, in milliseconds
BackoffMs == 2000

\* the entries of `http`
SleepEv(ms)   == [kind |-> "sleep", ms |-> ms, outcome |-> "none"]
GetEv(outcome) == [kind |-> "get", ms |-> 0, outcome |-> outcome]

\* what session.get / raise_for_status raise: requests.exceptions.Timeout, or
\* another requests.exceptions.RequestException (connection error, HTTP error)
TransportErrors == {"Timeout", "RequestException"}

NoData == [results |-> << >>, pages |-> Absent]

\* mutant of RetryAllowed: `attempt < max_retries` for `attempt < max_retries - 1`
RetryAllowed_OffByOne(a) == a < max_retries

\* `if attempt < max_retries - 1:` of both except clauses
RetryAllowed(a) == a < max_retries - 1

\* the records the upstream serves: one for each way an iteration of the
\* engine's loop ends (a PAC's, a conduit's, one naming Warren, a refund, and
\* one whose amount is null)
UpstreamKinds ==
  { Rec(Num(20000), Str(PAC), Str(NameDoe)),
    Rec(Num(19999), Str(IND), Str(NameActBlue)),
    Rec(Num(20000), Str(IND), Str(NameWarren)),
    Rec(Num(-2500), Str(IND), Str(NameDoe)),
    Rec(Null, Str(IND), Str(NameDoe)) }

\* the j-th record of page p: the three fields the engine reads, and the
\* record's place in the upstream's listing
UpstreamRecord(kind, p, j) == kind @@ [page |-> p, row |-> j]

\* the JSON bodies the upstream may answer a request for page p of
\* schedules/schedule_a with: `results` of 0..MaxPerPage records (of one kind
\* on a page) and `pagination.pages`, which may be missing
ScheduleAResponses(p) ==
  { [results |-> [j \in 1..n |-> UpstreamRecord(kind, p, j)], pages |-> pg] :
      n \in 0..MaxPerPage, kind \in UpstreamKinds,
      pg \in {Absent} \cup {Num(k) : k \in 1..MaxUpstreamPages} }

\* a committee dict of candidate/<id>/committees: with its keys, or without
\* 'committee_id'
CommitteeOk  == [committee_id |-> Str(<<"C","1">>), name |-> Str(<<"c","m","t","e">>)]
CommitteeBad == [committee_id |-> Absent, name |-> Str(<<"c","m","t","e">>)]

CommitteesResponses ==
  { [results |-> rs, pages |-> Absent] :
      rs \in { << >>, <<CommitteeOk>>, <<CommitteeBad>> } }

\* a candidate dict of candidates/search: with its keys, or without 'name'
CandidateOk  == [candidate_id |-> Str(<<"S","1">>), name |-> Str(NameWarren)]
CandidateBad == [candidate_id |-> Str(<<"S","1">>), name |-> Absent]

SearchResponses ==
  { [results |-> rs, pages |-> Absent] :
      rs \in { << >>, <<CandidateOk>>, <<CandidateOk, CandidateBad>> } }

Responses(endpoint, p) ==
  IF endpoint = "schedule_a" THEN ScheduleAResponses(p)
  ELSE IF endpoint = "committees" THEN CommitteesResponses
  ELSE SearchResponses

MrIdle ==
  /\ mrPc = "idle"
  /\ mrEndpoint = "none"
  /\ attempt = 0
  /\ mrExc = "none"
  /\ mrData = NoData
  /\ http = << >>
  /\ calls = << >>

\* entering _make_request(endpoint, params) with params['page'] = p (0 when
\* the params hold no page): the for loop is at attempt 0
MrCall(endpoint, p) ==
  /\ mrPc' = "running"
  /\ mrEndpoint' = endpoint
  /\ attempt' = 0
  /\ mrExc' = "none"
  /\ mrData' = NoData
  /\ http' = << >>
  /\ calls' = Append(calls, [endpoint |-> endpoint, page |-> p,
                             outcome |-> "pending", results |-> << >>])

\* the running call's entry of `calls` after one more GET
Logged(outcome, results) ==
  [calls EXCEPT ![Len(calls)] =
     [@ EXCEPT !.outcome = outcome, !.results = results]]

\* the caller has taken what the call returned or raised: the call's frame,
\* and with it the log of what the call did, is gone
MrPop ==
  /\ mrPc' = "idle"
  /\ mrEndpoint' = "none"
  /\ attempt' = 0
  /\ mrExc' = "none"
  /\ mrData' = NoData
  /\ http' = << >>
  /\ UNCHANGED calls

\* An attempt that succeeds: the rate-limit sleep, the GET, return response.json()
MrAttemptOk ==
  /\ mrPc = "running"
  /\ attempt < max_retries
  /\ \E data \in Responses(mrEndpoint, calls[Len(calls)].page) :
       /\ mrData' = data
       /\ calls' = Logged("ok", data.results)
  /\ http' = http \o << SleepEv(RateLimitDelayMs), GetEv("ok") >>
  /\ mrPc' = "returned"
  /\ UNCHANGED <<mrEndpoint, attempt, mrExc, calcVars, fetchVars, appVars>>

\* An attempt that fails and is retried: the rate-limit sleep, the GET, the
\* except clause's sleep and `continue`; a loop that then runs out of attempts
\* ends at `raise Exception("Max retries exceeded")`.
MrAttemptRetry ==
  /\ mrPc = "running"
  /\ attempt < max_retries
  /\ RetryAllowed(attempt)
  /\ \E err \in TransportErrors :
       /\ http' = http \o << SleepEv(RateLimitDelayMs), GetEv(err),
                              SleepEv(BackoffMs) >>
       /\ calls' = Logged(err, << >>)
  /\ attempt' = attempt + 1
  /\ IF attempt + 1 < max_retries
       THEN UNCHANGED <<mrPc, mrExc>>
       ELSE mrPc' = "raised" /\ mrExc' = "Exception"
  /\ UNCHANGED <<mrEndpoint, mrData, calcVars, fetchVars, appVars>>

\* The last attempt fails: the rate-limit sleep, the GET, the bare `raise`
MrAttemptRaise ==
  /\ mrPc = "running"
  /\ attempt < max_retries
  /\ ~RetryAllowed(attempt)
  /\ \E err \in TransportErrors :
       /\ http' = http \o << SleepEv(RateLimitDelayMs), GetEv(err) >>
       /\ calls' = Logged(err, << >>)
       /\ mrExc' = err
  /\ mrPc' = "raised"
  /\ UNCHANGED <<mrEndpoint, attempt, mrData, calcVars, fetchVars, appVars>>

MakeRequestStep == MrAttemptOk \/ MrAttemptRetry \/ MrAttemptRaise

\* ------------------------------------ FECDataFetcher.get_committee_receipts
FetchIdle ==
  /\ fetchPc = "idle"
  /\ max_pages = Null
  /\ page = 1
  /\ all_receipts = << >>
  /\ fetchExc = "none"

\* `if max_pages and page > max_pages:` (0 and None are falsy)
CapReached(mp, pg) == mp.tag = "num" /\ mp.n # 0 /\ pg > mp.n

\* mutant of Caught: the second except clause left out
Caught_TimeoutOnly(exc) == exc = "Timeout"

\* the two except clauses around the call of _make_request
Caught(exc) == exc \in {"Timeout", "RequestException"}

\* pagination.get('pages', 1)
PagesOf(data) == Get(data, "pages", Num(1)).n

\* entering get_committee_receipts(committee_id, cycle, max_pages)
FetchCall(mp) ==
  /\ fetchPc' = "loop"
  /\ max_pages' = mp
  /\ page' = 1
  /\ all_receipts' = << >>
  /\ fetchExc' = "none"

\* head of the loop, the cap reached: break, return all_receipts
FetchCapReached ==
  /\ fetchPc = "loop"
  /\ CapReached(max_pages, page)
  /\ fetchPc' = "returned"
  /\ UNCHANGED <<max_pages, page, all_receipts, fetchExc, calcVars, mrVars, appVars>>

\* head of the loop, the cap not reached: call _make_request for `page`
FetchRequest ==
  /\ fetchPc = "loop"
  /\ ~CapReached(max_pages, page)
  /\ MrCall("schedule_a", page)
  /\ fetchPc' = "waiting"
  /\ UNCHANGED <<max_pages, page, all_receipts, fetchExc, calcVars, appVars>>

\* _make_request raised: an exception the except clauses catch breaks the
\* loop and the list so far is returned; any other leaves the method
FetchPageFailed ==
  /\ fetchPc = "waiting"
  /\ mrPc = "raised"
  /\ IF Caught(mrExc)
       THEN fetchPc' = "returned" /\ UNCHANGED fetchExc
       ELSE fetchPc' = "raised" /\ fetchExc' = mrExc
  /\ MrPop
  /\ UNCHANGED <<max_pages, page, all_receipts, calcVars, appVars>>

\* the page came back with no results: break
FetchPageEmpty ==
  /\ fetchPc = "waiting"
  /\ mrPc = "returned"
  /\ mrData.results = << >>
  /\ fetchPc' = "returned"
  /\ MrPop
  /\ UNCHANGED <<max_pages, page, all_receipts, fetchExc, calcVars, appVars>>

\* the page came back with results and is the last one the API reports:
\* extend, break
FetchPageLast ==
  /\ fetchPc = "waiting"
  /\ mrPc = "returned"
  /\ mrData.results # << >>
  /\ all_receipts' = all_receipts \o mrData.results
  /\ page >= PagesOf(mrData)
  /\ fetchPc' = "returned"
  /\ MrPop
  /\ UNCHANGED <<max_pages, page, fetchExc, calcVars, appVars>>

\* the page came back with results and more pages follow: extend, page += 1
FetchPageNext ==
  /\ fetchPc = "waiting"
  /\ mrPc = "returned"
  /\ mrData.results # << >>
  /\ all_receipts' = all_receipts \o mrData.results
  /\ ~(page >= PagesOf(mrData))
  /\ page' = page + 1
  /\ fetchPc' = "loop"
  /\ MrPop
  /\ UNCHANGED <<max_pages, fetchExc, calcVars, appVars>>

FetchStep ==
  \/ FetchCapReached
  \/ FetchRequest
  \/ FetchPageFailed
  \/ FetchPageEmpty
  \/ FetchPageLast
  \/ FetchPageNext

\* ------------------------------------------------------ the handlers
\* request.args.get('max_pages', 10)
DefaultMaxPages == 10
\* candidates[:10]
SearchLimit == 10

Digits == <<"0","1","2","3","4","5","6","7","8","9">>

IsDigit(c) == \E i \in 1..Len(Digits) : Digits[i] = c

DigitValue(c) == (CHOOSE i \in 1..Len(Digits) : Digits[i] = c) - 1

\* whether int(text) succeeds: an optional sign and then digits only
IsIntText(t) ==
  LET body == IF t # << >> /\ t[1] = "-" THEN Tail(t) ELSE t IN
  body # << >> /\ \A i \in 1..Len(body) : IsDigit(body[i])

RECURSIVE DigitsValue(_)
DigitsValue(t) ==
  IF t = << >> THEN 0
  ELSE 10 * DigitsValue(SubSeq(t, 1, Len(t) - 1)) + DigitValue(t[Len(t)])

\* int(text) of a text int() accepts
IntOf(t) == IF t[1] = "-" THEN 0 - DigitsValue(Tail(t)) ELSE DigitsValue(t)

\* whether int(request.args.get(key, default)) raises ValueError
IntArgFails(args, key) == args[key].tag = "str" /\ ~IsIntText(args[key].s)

\* int(request.args.get(key, default)) when it does not raise
IntArg(args, key, default) ==
  IF args[key].tag = "absent" THEN default ELSE IntOf(args[key].s)

\* request.args.get(key, ''): the text, '' when the key is missing
TextArg(args, key) == Get(args, key, Str(<< >>)).s

NoRequest ==
  [route |-> "none", candidate_id |-> Absent, name |-> Absent,
   cycle |-> Absent, max_pages |-> Absent]

NoResponse ==
  [status |-> 0, body |-> "none", detail |-> "none", analysis |-> NoResult,
   records |-> 0]

\* jsonify({'error': ...}), status: the error bodies of the handlers
ErrorResponse(status, detail) ==
  [status |-> status, body |-> "error", detail |-> detail,
   analysis |-> NoResult, records |-> 0]

\* no response: the exception left the handler for the framework
Unhandled(exc) ==
  [status |-> 0, body |-> "raised", detail |-> exc, analysis |-> NoResult,
   records |-> 0]

\* jsonify({'warning': ..., 'committee': {...}}), status 200
WarningResponse ==
  [status |-> 200, body |-> "warning", detail |-> "No contribution data available yet",
   analysis |-> NoResult, records |-> 0]

\* jsonify({'candidate': ..., 'committee': ..., 'analysis': analysis,
\*          'note': f'Analysis based on {len(receipts)} contribution records'})
AnalysisResponse(analysis, n) ==
  [status |-> 200, body |-> "analysis", detail |-> "none", analysis |-> analysis,
   records |-> n]

\* jsonify({'results': results}) with len(results) entries
ResultsResponse(n) ==
  [status |-> 200, body |-> "results", detail |-> "none", analysis |-> NoResult,
   records |-> n]

AppIdle ==
  /\ appPc = "idle"
  /\ request = NoRequest
  /\ principal_committee = CommitteeOk
  /\ response = NoResponse

\* ---- analyze_candidate
AtAnalyze == appPc = "start" /\ request.route = "analyze"

\* lines 62-63, before the try: int() of a text that is no int raises
AnalyzeParseError ==
  /\ AtAnalyze
  /\ IntArgFails(request, "cycle") \/ IntArgFails(request, "max_pages")
  /\ response' = Unhandled("ValueError")
  /\ appPc' = "done"
  /\ UNCHANGED <<request, principal_committee, calcVars, mrVars, fetchVars>>

\* `if not candidate_id:` 400
AnalyzeMissingId ==
  /\ AtAnalyze
  /\ ~IntArgFails(request, "cycle") /\ ~IntArgFails(request, "max_pages")
  /\ TextArg(request, "candidate_id") = << >>
  /\ response' = ErrorResponse(400, "candidate_id parameter required")
  /\ appPc' = "done"
  /\ UNCHANGED <<request, principal_committee, calcVars, mrVars, fetchVars>>

\* fetcher.get_candidate_committees(candidate_id, cycle=cycle): its call of
\* _make_request
AnalyzeCallCommittees ==
  /\ AtAnalyze
  /\ ~IntArgFails(request, "cycle") /\ ~IntArgFails(request, "max_pages")
  /\ TextArg(request, "candidate_id") # << >>
  /\ MrCall("committees", 0)
  /\ appPc' = "committees"
  /\ UNCHANGED <<request, principal_committee, response, calcVars, fetchVars>>

\* `if not committees:` 404
AnalyzeNoCommittees ==
  /\ appPc = "committees"
  /\ mrPc = "returned"
  /\ mrData.results = << >>
  /\ response' = ErrorResponse(404, "No committees found for this candidate")
  /\ appPc' = "done"
  /\ MrPop
  /\ UNCHANGED <<request, principal_committee, calcVars, fetchVars>>

\* principal_committee = committees[0]; the call of get_committee_receipts
\* with the parsed max_pages
AnalyzeCallReceipts ==
  /\ appPc = "committees"
  /\ mrPc = "returned"
  /\ mrData.results # << >>
  /\ mrData.results[1].committee_id.tag # "absent"
  /\ principal_committee' = mrData.results[1]
  /\ FetchCall(Num(IntArg(request, "max_pages", DefaultMaxPages)))
  /\ appPc' = "receipts"
  /\ MrPop
  /\ UNCHANGED <<request, response, calcVars>>

\* `if not receipts:` the 200 warning
AnalyzeNoReceipts ==
  /\ appPc = "receipts"
  /\ fetchPc = "returned"
  /\ all_receipts = << >>
  /\ response' = WarningResponse
  /\ appPc' = "done"
  /\ UNCHANGED <<request, principal_committee, calcVars, mrVars, fetchVars>>

\* calculate_big_money_percentage(receipts, candidate_name) is called
AnalyzeCallCalc ==
  /\ appPc = "receipts"
  /\ fetchPc = "returned"
  /\ all_receipts # << >>
  /\ receipts' = all_receipts
  /\ candidate_name' = TextArg(request, "name")
  /\ idx' = 1
  /\ breakdown' = EmptyBreakdown
  /\ calcPc' = "loop"
  /\ calcExc' = "none"
  /\ result' = NoResult
  /\ appPc' = "analysis"
  /\ UNCHANGED <<request, principal_committee, response, mrVars, fetchVars>>

\* the analysis came back: the 200 response
AnalyzeReturn ==
  /\ appPc = "analysis"
  /\ calcPc = "done"
  /\ response' = AnalysisResponse(result, Len(receipts))
  /\ appPc' = "done"
  /\ UNCHANGED <<request, principal_committee, calcVars, mrVars, fetchVars>>

\* `except Exception as e: return jsonify({'error': str(e)}), 500`: whatever
\* was raised inside the try block
AnalyzeExcept ==
  /\ \/ /\ appPc = "committees"
        /\ mrPc = "raised"
        /\ response' = ErrorResponse(500, mrExc)
     \/ /\ appPc = "committees"
        /\ mrPc = "returned"
        /\ mrData.results # << >>
        /\ mrData.results[1].committee_id.tag = "absent"
        /\ response' = ErrorResponse(500, "KeyError")
     \/ /\ appPc = "receipts"
        /\ fetchPc = "raised"
        /\ response' = ErrorResponse(500, fetchExc)
     \/ /\ appPc = "analysis"
        /\ calcPc = "raised"
        /\ response' = ErrorResponse(500, calcExc)
  /\ appPc' = "done"
  /\ UNCHANGED <<request, principal_committee, calcVars, mrVars, fetchVars>>

\* ---- search_candidates
AtSearch == appPc = "start" /\ request.route = "search"

\* line 25, before the try
SearchParseError ==
  /\ AtSearch
  /\ IntArgFails(request, "cycle")
  /\ response' = Unhandled("ValueError")
  /\ appPc' = "done"
  /\ UNCHANGED <<request, principal_committee, calcVars, mrVars, fetchVars>>

\* `if not name:` 400
SearchMissingName ==
  /\ AtSearch
  /\ ~IntArgFails(request, "cycle")
  /\ TextArg(request, "name") = << >>
  /\ response' = ErrorResponse(400, "Name parameter required")
  /\ appPc' = "done"
  /\ UNCHANGED <<request, principal_committee, calcVars, mrVars, fetchVars>>

\* fetcher.search_candidates(name, cycle, office): its call of _make_request
SearchCall ==
  /\ AtSearch
  /\ ~IntArgFails(request, "cycle")
  /\ TextArg(request, "name") # << >>
  /\ MrCall("search", 0)
  /\ appPc' = "search"
  /\ UNCHANGED <<request, principal_committee, response, calcVars, fetchVars>>

\* candidates[:10]
Limited(cs) == SubSeq(cs, 1, IF Len(cs) < SearchLimit THEN Len(cs) ELSE SearchLimit)

\* whether formatting a candidate raises KeyError: candidate['candidate_id']
\* and candidate['name'] are read without a default
FormatFails(c) == c.candidate_id.tag = "absent" \/ c.name.tag = "absent"

\* the formatted results are returned
SearchReturn ==
  /\ appPc = "search"
  /\ mrPc = "returned"
  /\ \A i \in 1..Len(Limited(mrData.results)) : ~FormatFails(mrData.results[i])
  /\ response' = ResultsResponse(Len(Limited(mrData.results)))
  /\ appPc' = "done"
  /\ MrPop
  /\ UNCHANGED <<request, principal_committee, calcVars, fetchVars>>

\* `except Exception as e: return jsonify({'error': str(e)}), 500`
SearchExcept ==
  /\ appPc = "search"
  /\ \/ /\ mrPc = "raised"
        /\ response' = ErrorResponse(500, mrExc)
     \/ /\ mrPc = "returned"
        /\ \E i \in 1..Len(Limited(mrData.results)) : FormatFails(mrData.results[i])
        /\ response' = ErrorResponse(500, "KeyError")
  /\ appPc' = "done"
  /\ UNCHANGED <<request, principal_committee, calcVars, mrVars, fetchVars>>

AppStep ==
  \/ AnalyzeParseError
  \/ AnalyzeMissingId
  \/ AnalyzeCallCommittees
  \/ AnalyzeNoCommittees
  \/ AnalyzeCallReceipts
  \/ AnalyzeNoReceipts
  \/ AnalyzeCallCalc
  \/ AnalyzeReturn
  \/ AnalyzeExcept
  \/ SearchParseError
  \/ SearchMissingName
  \/ SearchCall
  \/ SearchReturn
  \/ SearchExcept

\* calculate_big_money_percentage(receipts, candidate_name) has been called
\* and is at the head of its loop
InitCalc ==
  /\ receipts \in ReceiptLists
  /\ candidate_name \in CandidateNames
  /\ idx = 1
  /\ breakdown = EmptyBreakdown
  /\ calcPc = "loop"
  /\ calcExc = "none"
  /\ result = NoResult
  /\ MrIdle
  /\ FetchIdle
  /\ AppIdle

NextCalc == CalcStep

SpecCalc == InitCalc /\ [][NextCalc]_vars

\* get_committee_receipts(committee_id, cycle, max_pages) has been called and
\* is at the head of its loop; max_pages is None or an int
MaxPagesValues == {Null} \cup {Num(k) : k \in -1..MaxUpstreamPages}

InitFetch ==
  /\ fetchPc = "loop"
  /\ max_pages \in MaxPagesValues
  /\ page = 1
  /\ all_receipts = << >>
  /\ fetchExc = "none"
  /\ MrIdle
  /\ CalcIdle
  /\ AppIdle

NextFetch == FetchStep \/ MakeRequestStep

SpecFetch == InitFetch /\ [][NextFetch]_vars

\* a request has reached one of the two API handlers
ArgTexts(ts) == {Absent} \cup {Str(t) : t \in ts}

Requests ==
  { [route |-> "analyze", candidate_id |-> cid, name |-> nm, cycle |-> cy,
     max_pages |-> mp] :
      cid \in ArgTexts({ <<"S","1">> }),
      nm \in ArgTexts({ <<"E","l","i"," ","W","a","r","r","e","n">> }),
      cy \in ArgTexts({ <<"a","b","c">> }),
      mp \in ArgTexts({ <<"1">>, <<"x">> }) }
  \cup
  { [route |-> "search", candidate_id |-> Absent, name |-> nm, cycle |-> cy,
     max_pages |-> Absent] :
      nm \in ArgTexts({ <<"W","a","r","r","e","n">> }),
      cy \in ArgTexts({ <<"2","0","2","4">>, <<"a","b","c">> }) }

InitApp ==
  /\ appPc = "start"
  /\ request \in Requests
  /\ principal_committee = CommitteeOk
  /\ response = NoResponse
  /\ MrIdle
  /\ FetchIdle
  /\ CalcIdle

NextApp == AppStep \/ FetchStep \/ MakeRequestStep \/ CalcStep

SpecApp == InitApp /\ [][NextApp]_vars

\* ------------------------------------------------------------- the claims
\* the amount a record counts for: its amount when positive, else nothing
CountedAmount(receipt) == IF Amount(receipt) > 0 THEN Amount(receipt) ELSE 0

\* the sum of the amounts of the non-excluded records among the first n
RECURSIVE PositiveSum(_, _)
PositiveSum(rs, n) ==
  IF n = 0 THEN 0 ELSE PositiveSum(rs, n - 1) + CountedAmount(rs[n])

\* the nine accumulators, added one by one
NineSum(b) ==
  b["pacs"] + b["party_committees"] + b["other_candidates"] + b["organizations"]
  + b["large_individual_donors"] + b["small_individual_donors"]
  + b["self_funding"] + b["conduits"] + b["unknown"]

\* a step of the loop that finished the iteration on receipts[idx]
Iterated == calcPc = "loop" /\ idx <= Len(receipts) /\ idx' = idx + 1

\* C1 (closure): after any prefix of the list the nine accumulators sum to the
\* amounts of the non-excluded records processed so far, the returned
\* total_raised is that sum over the whole list, and an iteration on a record
\* with amount > 0 adds the amount to exactly one accumulator and leaves the
\* other eight alone.
C1_Closure ==
  /\ [](/\ NineSum(breakdown) = PositiveSum(receipts, idx - 1)
        /\ calcPc = "done" =>
             result.total_raised = PositiveSum(receipts, Len(receipts)))
  /\ [][ (Iterated /\ Amount(receipts[idx]) > 0) =>
           \E k \in Categories :
              /\ breakdown'[k] = breakdown[k] + Amount(receipts[idx])
              /\ \A j \in Categories \ {k} : breakdown'[j] = breakdown[j] ]_vars

\* C1 witness: a call returned after counting two records in two categories
C1_Witness ==
  /\ calcPc = "done"
  /\ Len(receipts) = 2
  /\ Cardinality({k \in Categories : breakdown[k] > 0}) = 2
  /\ result.total_raised = 40000

\* the money fields of a returned result are all non-negative
MoneyNonNegative(res) ==
  /\ res.total_raised >= 0
  /\ res.big_money_amount >= 0
  /\ res.grassroots_amount >= 0
  /\ res.self_funding_amount >= 0
  /\ \A k \in DOMAIN res.breakdown :
       res.breakdown[k].amount >= 0 /\ res.breakdown[k].percentage >= 0

\* the money totals of a returned result are those of the records with
\* amount > 0 alone
MoneyFromCountedOnly ==
  calcPc = "done" =>
    /\ result.total_raised = PositiveSum(receipts, Len(receipts))
    /\ result.big_money_amount + result.grassroots_amount
         + result.self_funding_amount + breakdown["unknown"]
       = PositiveSum(receipts, Len(receipts))
    /\ MoneyNonNegative(result)

\* the number of records of the list with amount > 0
CountedRecords == Cardinality({i \in 1..Len(receipts) : Amount(receipts[i]) > 0})

\* C2 as stated: a record with amount <= 0 is counted nowhere and is in no
\* total of the result, total_receipts included.
C2_Original ==
  /\ MoneyFromCountedOnly
  /\ calcPc = "done" => result.total_receipts = CountedRecords

\* C2 as amended: an iteration on a record with amount <= 0 changes no
\* accumulator, the money totals of the result are those of the records with
\* amount > 0 alone and none is negative; total_receipts is len(receipts),
\* which counts the discarded records too.
C2_Exclusion ==
  /\ [](/\ MoneyFromCountedOnly
        /\ calcPc = "done" => result.total_receipts = Len(receipts))
  /\ [][ (Iterated /\ Amount(receipts[idx]) <= 0) => breakdown' = breakdown ]_vars

\* C2 witness: a call returned on a list holding a refund and a counted record
C2_Witness ==
  /\ calcPc = "done"
  /\ \E i \in 1..Len(receipts) : Amount(receipts[i]) < 0
  /\ \E i \in 1..Len(receipts) : Amount(receipts[i]) > 0
  /\ result.total_receipts = 2
  /\ result.total_raised = 20000

\* The category the claim gives a record with amount > 0; `etype` is the
\* entity type as the claim's reading takes it.
ClaimedCategory(receipt, cand, etype) ==
  LET name == Upper(Get(receipt, "contributor_name", Str(<< >>)).s) IN
  IF \E c \in { <<"A","C","T","B","L","U","E">>, <<"W","I","N","R","E","D">>,
                <<"A","C","T"," ","B","L","U","E">>,
                <<"W","I","N"," ","R","E","D">> } : Contains(name, c)
    THEN "conduits"
  ELSE IF cand # << >> /\ (Contains(name, Upper(SplitLast(cand))) \/ etype = CAN)
    THEN "self_funding"
  ELSE CASE etype = PAC -> "pacs"
         [] etype = PTY -> "party_committees"
         [] etype = CCM -> "other_candidates"
         [] etype = ORG -> "organizations"
         [] etype = IND -> IF Amount(receipt) >= 20000
                           THEN "large_individual_donors"
                           ELSE "small_individual_donors"
         [] OTHER -> "unknown"

C4_PercentageBounds ==
  calcPc = "done" =>
    LET countable == result.total_raised - result.self_funding_amount IN
    /\ result.big_money_amount <= countable
    /\ result.big_money_percentage >= 0
    /\ result.big_money_percentage <= 1000
    /\ ~(countable > 0) => result.big_money_percentage = 0
    /\ countable > 0 =>
         /\ 2 * (result.big_money_percentage * countable
                   - 1000 * result.big_money_amount) <= countable
         /\ 2 * (1000 * result.big_money_amount
                   - result.big_money_percentage * countable) <= countable

\* C4 witness: a list of one self-funding and one big-money record returned
\* 100 percent, the self-funding left out of the denominator
C4_Witness ==
  /\ calcPc = "done"
  /\ result.self_funding_amount > 0
  /\ result.big_money_amount > 0
  /\ result.big_money_percentage = 1000

\* C5 as stated: the call never raises; a record with a missing or null
\* amount, entity type or contributor name, and any candidate name, give a
\* returned result.
C5_NeverRaises == calcPc # "raised"

\* C10 (no candidate name): with candidate_name = '' nothing is ever added to
\* self_funding, a finished iteration on a non-conduit record with amount > 0
\* and entity type CAN adds the amount to unknown, and the result has
\* self_funding_amount = 0, so countable_total = total_raised.
C10_NoCandidateName ==
  /\ [](candidate_name = << >> =>
          /\ breakdown["self_funding"] = 0
          /\ calcPc = "done" =>
               /\ result.self_funding_amount = 0
               /\ CountableTotal(breakdown) = result.total_raised)
  /\ [][ ( /\ candidate_name = << >>
           /\ Iterated
           /\ Amount(receipts[idx]) > 0
           /\ EntityType(receipts[idx]) = CAN
           /\ ~IsConduit(ContributorName(receipts[idx])) ) =>
         breakdown' =
           [breakdown EXCEPT !["unknown"] = @ + Amount(receipts[idx])] ]_vars

\* C10 witness: with no candidate name, a CAN record was counted as unknown
C10_Witness ==
  /\ calcPc = "done"
  /\ candidate_name = << >>
  /\ receipts = << Rec(Num(20000), Str(CAN), Str(NameWarren)) >>
  /\ breakdown["unknown"] = 20000
  /\ result.self_funding_amount = 0

\* the positions of the GETs in the log of the current call of _make_request
Gets == {i \in 1..Len(http) : http[i].kind = "get"}

\* the results of the first n calls of _make_request, in call order
RECURSIVE ConcatResults(_, _)
ConcatResults(cs, n) ==
  IF n = 0 THEN << >> ELSE ConcatResults(cs, n - 1) \o cs[n].results

\* C6 (partial result on failure): get_committee_receipts never raises; a
\* call of _make_request it makes raises only after max_retries failed GETs;
\* and when it returns after the fetch of page k failed so, the calls it made
\* were for pages 1, 2, .., k in that order, the first k-1 succeeded, and it
\* returns exactly their results in page order.
C6_PartialOnFailure ==
  /\ fetchPc # "raised"
  /\ (fetchPc = "waiting" /\ mrPc = "raised") =>
       /\ Cardinality(Gets) = 3
       /\ \A i \in Gets : http[i].outcome \in {"Timeout", "RequestException"}
  /\ ( /\ fetchPc = "returned"
       /\ calls # << >>
       /\ calls[Len(calls)].outcome \in {"Timeout", "RequestException"} ) =>
       LET k == Len(calls) IN
       /\ \A i \in 1..k : calls[i].page = i
       /\ \A i \in 1..(k - 1) : calls[i].outcome = "ok"
       /\ all_receipts = ConcatResults(calls, k - 1)

\* C6 witness: pages 1 and 2 gave a record each, page 3 failed, and the two
\* records were returned in page order
C6_Witness ==
  /\ fetchPc = "returned"
  /\ Len(calls) = 3
  /\ calls[3].outcome = "RequestException"
  /\ Len(all_receipts) = 2
  /\ all_receipts[1].page = 1
  /\ all_receipts[2].page = 2

\* C7 as stated: with an int max_pages, a GET is made for pages 1..max_pages
\* only, so that at most max_pages calls of _make_request (each of at most
\* max_retries GETs) are made.
C7_PageCap ==
  max_pages.tag = "num" =>
    /\ \A i \in 1..Len(calls) :
         calls[i].outcome # "pending" =>
           calls[i].page >= 1 /\ calls[i].page <= max_pages.n
    /\ Len(calls) <= (IF max_pages.n > 0 THEN max_pages.n ELSE 0)

\* C8 (bounded retries): one call of _make_request makes at most max_retries
\* GETs, each right after the rate-limit sleep; a successful GET is the last
\* thing the call does; a failed GET that is not the call's last is followed
\* by the backoff sleep, the rate-limit sleep and the next GET; and a call
\* raises only after max_retries failed GETs, with the error of the last one.
C8_BoundedRetries ==
  /\ Cardinality(Gets) <= 3
  /\ \A i \in Gets : i > 1 /\ http[i - 1] = SleepEv(100)
  /\ \A i \in Gets : http[i].outcome = "ok" =>
       i = Len(http) /\ mrPc = "returned"
  /\ \A i \in Gets : (http[i].outcome # "ok" /\ \E j \in Gets : j > i) =>
       /\ http[i + 1] = SleepEv(2000)
       /\ i + 3 \in Gets
  /\ mrPc = "returned" => http[Len(http)] = GetEv("ok")
  /\ mrPc = "raised" =>
       /\ Cardinality(Gets) = 3
       /\ \A i \in Gets : http[i].outcome \in {"Timeout", "RequestException"}
       /\ http[Len(http)].kind = "get"
       /\ mrExc = http[Len(http)].outcome

\* C8 witness: a call raised the Timeout of its third GET after a first GET
\* that failed otherwise
C8_Witness ==
  /\ mrPc = "raised"
  /\ Cardinality(Gets) = 3
  /\ http[2].outcome = "RequestException"
  /\ mrExc = "Timeout"

\* the request's cycle or max_pages text is no int
BadIntArg == IntArgFails(request, "cycle") \/ IntArgFails(request, "max_pages")

\* the handler's own upstream call (committees or search, the first call of
\* the request) failed with its retries exhausted
FirstCallFailed ==
  calls # << >> /\ calls[1].outcome \in {"Timeout", "RequestException"}

\* the first call returned a dict the handler reads a missing key of
FirstCallMalformed ==
  /\ calls # << >>
  /\ calls[1].outcome = "ok"
  /\ \/ /\ calls[1].endpoint = "committees"
        /\ calls[1].results # << >>
        /\ calls[1].results[1].committee_id.tag = "absent"
     \/ /\ calls[1].endpoint = "search"
        /\ \E i \in 1..Len(calls[1].results) :
             calls[1].results[i].name.tag = "absent"

\* a failure was raised while the handler processed the request, a failed
\* parse of cycle or max_pages apart
FailureInsideTry == FirstCallFailed \/ FirstCallMalformed \/ calcPc = "raised"

\* the handler answered 500 with {error: message} and no analysis
Is500 ==
  response.status = 500 /\ response.body = "error" /\ response.analysis = NoResult

\* C9 as stated: every failure raised while a handler processes a request,
\* a failed parse of cycle or max_pages included, is answered with 500 and
\* {error: message} and no analysis; no committees gives 404 and committees
\* without receipts the 200 warning.
C9_BoundaryCatch ==
  appPc = "done" =>
    /\ response.body # "raised"
    /\ (BadIntArg \/ FailureInsideTry) => Is500
    /\ ( /\ ~BadIntArg
         /\ calls # << >>
         /\ calls[1].endpoint = "committees"
         /\ calls[1].outcome = "ok"
         /\ calls[1].results = << >> ) => response.status = 404
    /\ ( /\ ~BadIntArg
         /\ ~FailureInsideTry
         /\ appPc = "done"
         /\ fetchPc = "returned"
         /\ all_receipts = << >> ) =>
         response.status = 200 /\ response.body = "warning"

\* the calls of _make_request made by get_committee_receipts in the handler:
\* all but the first, which fetched the committees
ReceiptCalls == IF calls = << >> THEN << >> ELSE Tail(calls)

\* the handler's paging ended with a transport failure of its last page fetch
ReceiptPageFailed ==
  /\ request.route = "analyze"
  /\ ReceiptCalls # << >>
  /\ ReceiptCalls[Len(ReceiptCalls)].endpoint = "schedule_a"
  /\ ReceiptCalls[Len(ReceiptCalls)].outcome \in TransportErrors

\* C11 as stated: in analyze_candidate a transport failure of the first
\* receipts page is answered with the 200 warning of a committee without
\* receipts, and a transport failure of a later page with a 200 analysis
\* computed from the records of the pages before it only.
C11_SwallowedFailure ==
  (appPc = "done" /\ ReceiptPageFailed) =>
    LET k == Len(ReceiptCalls) IN
    /\ all_receipts = ConcatResults(ReceiptCalls, k - 1)
    /\ k = 1 => response = WarningResponse
    /\ k > 1 =>
         /\ receipts = all_receipts
         /\ response = AnalysisResponse(MakeResult(breakdown, all_receipts),
                                        Len(all_receipts))

====
